---- MODULE Spec2Model ----
(***************************************************************************)
(* A model of scripts/run-theme-check.js: the Theme Check reporter script  *)
(* that runs the diagnostic engine, formats the offenses into a Markdown   *)
(* report, publishes it through GITHUB_OUTPUT and exits with a status.     *)
(*                                                                         *)
(* Three specifications share the module:                                  *)
(*   Spec        one run of the script, from module import to process exit *)
(*   FormatSpec  formatOffenseBlock applied to enumerated arguments        *)
(*   ConcSpec    two runs of writeCommentBodyToFile sharing RUNNER_TEMP    *)
(*                                                                         *)
(* Strings that the code inspects (uris, paths) are sequences of           *)
(* one-character strings.  Strings that the code only concatenates (the    *)
(* report) are sequences of parts, in the order of the template literal.   *)
(***************************************************************************)
EXTENDS Integers, Sequences, FiniteSets, TLC

VARIABLES
  \* ---- one run of the script (Spec) ----
  themeCheckRun,      \* what the module import left in themeCheckRun
  env,                \* process.env / the file system the run sees
  pc,                 \* position of the run
  engineCalls,        \* number of calls of themeCheckRun(themePath)
  allOffenses,
  errorOffenses,
  warningOffenses,
  totalErrorCount,
  totalWarningCount,
  summaryLine,
  reportBody,
  jobShouldFail,
  caught,             \* which throw the catch of runCheck handled ("none" if none)
  finalCommentBody,
  fallbackBody,
  bodyFile,           \* the path computed by writeCommentBodyToFile
  tempFiles,          \* files of the temporary directory: set of [name, body]
  outputFile,         \* lines appended to GITHUB_OUTPUT: Seq of [name, value]
  outputCalls,        \* calls of setOutput: Seq of [name, value, appended]
  writeFailed,        \* fs.writeFileSync threw
  exitCode,           \* -1 while the process runs
  \* ---- formatOffenseBlock (FormatSpec) ----
  fpc,
  fArgs,
  fResult,
  \* ---- two overlapping runs (ConcSpec) ----
  clock,              \* Date.now()
  rpc,
  rBodyFile,
  rOutput,
  dirFiles            \* file name -> the run whose body the file holds

runVars == <<themeCheckRun, env, pc, engineCalls, allOffenses, errorOffenses,
             warningOffenses, totalErrorCount, totalWarningCount, summaryLine,
             reportBody, jobShouldFail, caught, finalCommentBody, fallbackBody,
             bodyFile, tempFiles, outputFile, outputCalls, writeFailed, exitCode>>

fmtVars == <<fpc, fArgs, fResult>>

concVars == <<clock, rpc, rBodyFile, rOutput, dirFiles>>

vars == <<runVars, fmtVars, concVars>>

-----------------------------------------------------------------------------
(* Bounds of the model *)

MaxOffenses == 2

MaxClock == 2

-----------------------------------------------------------------------------
(* Character strings *)

EmptyStr == <<>>

StartsWith(s, p) == Len(s) >= Len(p) /\ SubSeq(s, 1, Len(p)) = p

EndsWith(s, p) == Len(s) >= Len(p) /\ SubSeq(s, Len(s) - Len(p) + 1, Len(s)) = p

\* String.prototype.substring(n): the string without its first n characters
Substring(s, n) == SubSeq(s, n + 1, Len(s))

FileScheme == <<"f", "i", "l", "e", ":", "/", "/">>

UnknownPath == <<"u", "n", "k", "n", "o", "w", "n", "_", "p", "a", "t", "h">>

DefaultUri == FileScheme \o <<"/">> \o UnknownPath

\* The escape sequences decodeURIComponent meets in the enumerated uris:
\* %61 is "a", %2F is "/"; any other continuation of "%" is malformed.
HexDecode(a, b) ==
  CASE a = "6" /\ b = "1" -> "a"
    [] a = "2" /\ b = "F" -> "/"
    [] OTHER -> "malformed"

RECURSIVE decodeURIComponent(_)
decodeURIComponent(s) ==
  IF s = <<>> THEN [ok |-> TRUE, s |-> <<>>]
  ELSE IF Head(s) = "%"
       THEN IF Len(s) >= 3 /\ HexDecode(s[2], s[3]) # "malformed"
            THEN LET rest == decodeURIComponent(Substring(s, 3))
                 IN  [ok |-> rest.ok, s |-> <<HexDecode(s[2], s[3])>> \o rest.s]
            ELSE [ok |-> FALSE, s |-> <<>>]          \* URIError: URI malformed
       ELSE LET rest == decodeURIComponent(Tail(s))
            IN  [ok |-> rest.ok, s |-> <<Head(s)>> \o rest.s]

-----------------------------------------------------------------------------
(* formatOffenseBlock *)

\* offense.start?.line ?? 0 and offense.start?.character ?? 0
StartRow(offense) == IF offense.start.present THEN offense.start.line ELSE 0

StartCol(offense) == IF offense.start.present THEN offense.start.character ELSE 0

BaseWorkspacePath(workspacePath) ==
  IF EndsWith(workspacePath, <<"/">>) THEN workspacePath ELSE workspacePath \o <<"/">>

\* The condition of line 94
LinkConditionNoRow(repoUrl, commitSha, relativePath, startRow) ==
  repoUrl # EmptyStr /\ commitSha # EmptyStr /\ relativePath # UnknownPath

LinkCondition(repoUrl, commitSha, relativePath, startRow) ==
  repoUrl # EmptyStr /\ commitSha # EmptyStr /\ relativePath # UnknownPath /\ startRow > 0

\* `${repoUrl}/blob/${commitSha}/${linkPath}#L${startRow}`
FileLink(repoUrl, commitSha, relativePath, startRow) ==
  LET linkPath == IF StartsWith(relativePath, <<"/">>) THEN Substring(relativePath, 1)
                  ELSE relativePath
  IN  [repoUrl |-> repoUrl, blob |-> commitSha, linkPath |-> linkPath, line |-> startRow]

NoLink == [repoUrl |-> EmptyStr, blob |-> EmptyStr, linkPath |-> EmptyStr, line |-> 0]

\* The paths of lines 89-108: relativePath and fileLink
ResolvePath(offenseUri, startRow, workspacePath, repoUrl, commitSha) ==
  LET base == BaseWorkspacePath(workspacePath)
      dec  == decodeURIComponent(Substring(offenseUri, 7))
  IN  IF StartsWith(offenseUri, FileScheme)
      THEN IF dec.ok
           THEN IF StartsWith(dec.s, base)
                THEN LET rel == Substring(dec.s, Len(base))
                     IN  [relativePath |-> rel,
                          fileLink |-> IF LinkCondition(repoUrl, commitSha, rel, startRow)
                                       THEN FileLink(repoUrl, commitSha, rel, startRow)
                                       ELSE NoLink]
                ELSE [relativePath |-> dec.s, fileLink |-> NoLink]
           ELSE [relativePath |-> offenseUri, fileLink |-> NoLink]
      ELSE [relativePath |-> offenseUri, fileLink |-> NoLink]

\* The Markdown list item, as the parts of the template of lines 110-114:
\* pathLink is `[relativePath](fileLink)` when fileLink is non-empty and the
\* bare relativePath otherwise.
formatOffenseBlock(offense, workspacePath, repoUrl, commitSha) ==
  LET offenseUri == IF offense.uri # EmptyStr THEN offense.uri ELSE DefaultUri
      startRow   == StartRow(offense)
      startCol   == StartCol(offense)
      r          == ResolvePath(offenseUri, startRow, workspacePath, repoUrl, commitSha)
  IN  [kind |-> "item",
       pathText |-> r.relativePath,
       linked |-> r.fileLink # NoLink,
       fileLink |-> r.fileLink,
       row |-> startRow,
       col |-> startCol,
       message |-> IF offense.message # "" THEN offense.message ELSE "No message",
       check |-> IF offense.check # "" THEN offense.check ELSE "No check code"]

-----------------------------------------------------------------------------
(* Report text: sequences of parts *)

Lit(s) == [kind |-> "lit", s |-> s]

NL == Lit("\n")

RECURSIVE Digits(_)
Digits(n) ==
  LET d == <<"0", "1", "2", "3", "4", "5", "6", "7", "8", "9">>
  IN  IF n < 10 THEN <<d[n + 1]>> ELSE Digits(n \div 10) \o <<d[(n % 10) + 1]>>

\* `${n}` and n.toString() of a non-negative integer
Num(n) == [kind |-> "num", digits |-> Digits(n)]

\* A value interpolated from the environment (a character string)
Txt(s) == [kind |-> "txt", chars |-> s]

RECURSIVE Join(_)
\* Array.prototype.join('\n') of rendered items
Join(items) ==
  IF Len(items) = 0 THEN <<>>
  ELSE IF Len(items) = 1 THEN <<items[1]>>
  ELSE <<items[1], NL>> \o Join(Tail(items))

ErrorsHeader == Lit("### :rotating_light: Errors")

WarningsHeader == Lit("### :warning: Warnings")

Separator == Lit("---")

SuccessOpen == Lit(":white_check_mark: (")

SuccessClose == Lit(")")

ScriptFailedOpen == Lit(":warning: **Theme Check Script Failed**")

\* the three-backtick code fence
CodeFence == Lit("<fence>")

CouldNotWrite == Lit(":warning: Error: Could not write report file.")

-----------------------------------------------------------------------------
(* The environment of one run *)

RepoUrlSample == <<"h", ":", "/", "/", "g", "/", "r">>

CommitShaSample == <<"a", "b", "c">>

RunIdSample == <<"4", "2">>

WorkspaceSample == <<"/", "w">>

\* GITHUB_OUTPUT: "unset", "nodir" (set, its parent directory does not exist)
\* or "ok" (set, the parent directory exists)
Envs ==
  [GITHUB_OUTPUT : {"unset", "nodir", "ok"},
   FAIL_ON_WARNINGS : {"", "true", "TRUE"},
   REPO_URL : {EmptyStr, RepoUrlSample},
   RUN_ID : {EmptyStr, RunIdSample},
   COMMIT_SHA : {CommitShaSample},
   WORKSPACE_PATH : {WorkspaceSample},
   PR_NUMBER : {<<"7">>}]

\* line 36
failOnWarningsLoose(e) == e.FAIL_ON_WARNINGS # ""

failOnWarnings(e) == e.FAIL_ON_WARNINGS = "true"

\* line 30: process.env.PR_NUMBER || 'N/A'
prNumber(e) == IF e.PR_NUMBER # EmptyStr THEN e.PR_NUMBER ELSE <<"N", "/", "A">>

\* line 124
reportTitle(e) == <<Lit("## Theme Check Report for PR #"), Txt(prNumber(e))>>

\* line 125: '' unless both the repository URL and the run id are set
actionRunUrl(e) ==
  IF e.REPO_URL # EmptyStr /\ e.RUN_ID # EmptyStr
  THEN e.REPO_URL \o <<"/", "a", "c", "t", "i", "o", "n", "s", "/", "r", "u", "n", "s", "/">> \o e.RUN_ID
  ELSE EmptyStr

\* line 206
viewMoreLink(e) ==
  IF actionRunUrl(e) # EmptyStr
  THEN <<NL, NL, [kind |-> "link", text |-> "View Full Action Run Details", url |-> actionRunUrl(e)]>>
  ELSE <<>>

-----------------------------------------------------------------------------
(* What the diagnostic engine can hand back *)

InsideUri == FileScheme \o <<"/", "w", "/", "a">>

CheckOf(sev) == CASE sev = 0 -> "LiquidHTMLSyntaxError" [] sev = 1 -> "UnusedAssign" [] OTHER -> "InfoOnly"

\* Offense records of the engine: severity 0 (error), 1 (warning), 2 (other)
OffenseSamples ==
  {[uri |-> InsideUri, start |-> [present |-> TRUE, line |-> 12, character |-> 4],
    severity |-> sev, message |-> m, check |-> CheckOf(sev)] :
     sev \in {0, 1, 2}, m \in {"m1", "m2"}}

OffenseLists == UNION {[1..n -> OffenseSamples] : n \in 0..MaxOffenses}

\* The value themeCheckRun resolves with: line 144 tests `results` for
\* truthiness and results.offenses for being an array
Results ==
  {[truthy |-> FALSE, offensesIsArray |-> FALSE, offenses |-> <<>>],
   [truthy |-> TRUE, offensesIsArray |-> FALSE, offenses |-> <<>>]}
  \cup {[truthy |-> TRUE, offensesIsArray |-> TRUE, offenses |-> l] : l \in OffenseLists}

\* The value themeCheckRun rejects with: an Error with a message, an Error
\* with an empty message, a string, or undefined/null.  text is String(error).
Thrown ==
  {[nullish |-> FALSE, message |-> "engine exploded", text |-> "Error: engine exploded"],
   [nullish |-> FALSE, message |-> "", text |-> "Error"],
   [nullish |-> FALSE, message |-> "", text |-> "plain string"],
   [nullish |-> TRUE, message |-> "", text |-> "undefined"]}

OutputError ==
  [nullish |-> FALSE, message |-> "GITHUB_OUTPUT path invalid or directory does not exist",
   text |-> "Error: GITHUB_OUTPUT path invalid or directory does not exist"]

NotFunctionError ==
  [nullish |-> FALSE, message |-> "Failed to access themeCheckRun function correctly",
   text |-> "Error: Failed to access themeCheckRun function correctly"]

ShapeError ==
  [nullish |-> FALSE, message |-> "Theme check did not return the expected offenses array structure.",
   text |-> "Error: Theme check did not return the expected offenses array structure."]

\* line 201: error.message || error
ErrorText(error) == IF error.message # "" THEN error.message ELSE error.text

ScriptFailedBody(error) == <<ScriptFailedOpen, NL, CodeFence, NL, Lit(ErrorText(error)), NL, CodeFence>>

-----------------------------------------------------------------------------
(* runCheck: classification, report body, decision *)

IsError(offense) == offense.severity = 0

IsWarningLoose(offense) == offense.severity >= 1

IsWarning(offense) == offense.severity = 1

\* lines 157-158: Array.prototype.filter
ErrorsOf(offenses) == SelectSeq(offenses, IsError)

WarningsOf(offenses) == SelectSeq(offenses, IsWarning)

\* line 162
SummaryOf(e, w) == <<Num(e), Lit(" error(s), "), Num(w), Lit(" warning(s) found.")>>

FormatAll(offenses, e) ==
  [i \in 1..Len(offenses) |->
     formatOffenseBlock(offenses[i], e.WORKSPACE_PATH, e.REPO_URL, e.COMMIT_SHA)]

ReportBodyAlwaysSeparated(errs, warns, e) ==
  LET formattedErrors   == IF Len(errs) > 0 THEN Join(FormatAll(errs, e)) ELSE <<>>
      formattedWarnings == IF Len(warns) > 0 THEN Join(FormatAll(warns, e)) ELSE <<>>
  IN  IF Len(errs) = 0 /\ Len(warns) = 0
      THEN <<SuccessOpen>> \o SummaryOf(0, 0) \o <<SuccessClose>>
      ELSE (IF formattedErrors # <<>>
            THEN <<ErrorsHeader, NL>> \o formattedErrors \o <<NL>> ELSE <<>>)
           \o (IF formattedWarnings # <<>>
               THEN <<NL, Separator, NL>> \o <<WarningsHeader, NL>> \o formattedWarnings
               ELSE <<>>)

\* lines 165-186
ReportBody(errs, warns, e) ==
  LET formattedErrors   == IF Len(errs) > 0 THEN Join(FormatAll(errs, e)) ELSE <<>>
      formattedWarnings == IF Len(warns) > 0 THEN Join(FormatAll(warns, e)) ELSE <<>>
  IN  IF Len(errs) = 0 /\ Len(warns) = 0
      THEN <<SuccessOpen>> \o SummaryOf(Len(errs), Len(warns)) \o <<SuccessClose>>
      ELSE (IF formattedErrors # <<>>
            THEN <<ErrorsHeader, NL>> \o formattedErrors \o <<NL>> ELSE <<>>)
           \o (IF formattedWarnings # <<>>
               THEN (IF formattedErrors # <<>> THEN <<NL, Separator, NL>> ELSE <<>>)
                    \o <<WarningsHeader, NL>> \o formattedWarnings
               ELSE <<>>)

\* lines 188-195
ShouldFail(e, w, flag) == e > 0 \/ (w > 0 /\ flag)

\* line 207
FinalCommentBody(e, summary, body) ==
  reportTitle(e) \o <<NL, Lit("**")>> \o summary \o <<Lit("**"), NL, NL>> \o body \o viewMoreLink(e)

\* line 217
FallbackBody(e, summary) ==
  reportTitle(e) \o <<NL, Lit("**")>> \o summary \o <<Lit("**"), NL, NL, CouldNotWrite>> \o viewMoreLink(e)

\* line 65: path.join(tempDir, `comment-body-${Date.now()}.md`)
BodyFilePath(now) == <<Lit("<tempDir>/comment-body-"), Num(now), Lit(".md")>>

-----------------------------------------------------------------------------
(* setOutput *)

\* line 45: % -> %25, \n -> %0A, \r -> %0D
EscapePart(p) ==
  IF p = Lit("%") THEN Lit("%25")
  ELSE IF p = NL THEN Lit("%0A")
  ELSE IF p = Lit("\r") THEN Lit("%0D")
  ELSE p

Escape(value) == [i \in 1..Len(value) |-> EscapePart(value[i])]

\* Whether the appendFileSync of line 48 adds the line: appendOk is the
\* outcome of the write where the destination's directory exists
Appends(e, appendOk) == e.GITHUB_OUTPUT = "ok" /\ appendOk

\* The call sites of setOutput, in program order, and where control goes
\* after each call: the catch of lines 52-54 swallows a failed append.
AfterSetOutputPropagating(site, appended) ==
  IF ~appended /\ site \in {"cbf", "fcb", "ec", "wc"} THEN "cbfEmpty"
  ELSE CASE site = "cbf" -> "fcb"
         [] site = "fcb" -> "ec"
         [] site = "ec" -> "wc"
         [] site = "wc" -> "exit"
         [] site = "cbfEmpty" -> "fcbFallback"
         [] site = "fcbFallback" -> "exit"

AfterSetOutput(site, appended) ==
  CASE site = "cbf" -> "fcb"
    [] site = "fcb" -> "ec"
    [] site = "ec" -> "wc"
    [] site = "wc" -> "exit"
    [] site = "cbfEmpty" -> "fcbFallback"
    [] site = "fcbFallback" -> "exit"

setOutput(site, name, value) ==
  /\ pc = site
  /\ \E appendOk \in BOOLEAN :
       /\ outputFile' = IF Appends(env, appendOk)
                        THEN Append(outputFile, [name |-> name, value |-> Escape(value)])
                        ELSE outputFile
       /\ outputCalls' = Append(outputCalls, [name |-> name, value |-> value,
                                              appended |-> Appends(env, appendOk)])
       /\ pc' = AfterSetOutput(site, Appends(env, appendOk))

-----------------------------------------------------------------------------
(* One run of the script *)

fmtIdle == fpc = "idle" /\ fArgs = <<>> /\ fResult = <<>>

concIdle ==
  /\ clock = 0
  /\ rpc = <<>>
  /\ rBodyFile = <<>>
  /\ rOutput = <<>>
  /\ dirFiles = <<>>

\* themeCheckRun after lines 17-26: "requireThrows" (the require of the
\* engine threw), "undefined" (the module has no themeCheckRun function) or
\* "function".  The locals of runCheck hold the values of lines 121-128.
Init ==
  /\ themeCheckRun \in {"requireThrows", "undefined", "function"}
  /\ env \in Envs
  /\ pc = "import"
  /\ engineCalls = 0
  /\ allOffenses = <<>>
  /\ errorOffenses = <<>>
  /\ warningOffenses = <<>>
  /\ totalErrorCount = 0
  /\ totalWarningCount = 0
  /\ summaryLine = <<Lit("Error: Processing failed.")>>
  /\ reportBody = <<>>
  /\ jobShouldFail = FALSE
  /\ caught = "none"
  /\ finalCommentBody = <<>>
  /\ fallbackBody = <<>>
  /\ bodyFile = <<>>
  /\ tempFiles = {}
  /\ outputFile = <<>>
  /\ outputCalls = <<>>
  /\ writeFailed = FALSE
  /\ exitCode = -1
  /\ fmtIdle
  /\ concIdle

\* lines 197-203: the catch of runCheck.  error.message of undefined or null
\* raises a TypeError inside the handler: the promise of runCheck rejects
\* with nobody handling it, line 225 is never reached, and the exit status
\* is the runtime's for an unhandled rejection (1 by default since
\* Node.js 15, 0 before).
Catch(error, kind) ==
  /\ caught' = kind
  /\ IF error.nullish
     THEN /\ pc' = "crashed"
          /\ exitCode' \in {0, 1}
          /\ UNCHANGED <<summaryLine, reportBody, jobShouldFail>>
     ELSE /\ summaryLine' = <<Lit("Error: Failed to run theme check script.")>>
          /\ reportBody' = ScriptFailedBody(error)
          /\ jobShouldFail' = TRUE
          /\ pc' = "publish"
          /\ UNCHANGED exitCode

\* lines 17-26
ModuleImport ==
  /\ pc = "import"
  /\ IF themeCheckRun = "requireThrows"
     THEN pc' = "exitedAtImport" /\ exitCode' = 1
     ELSE pc' = "runCheck" /\ UNCHANGED exitCode
  /\ UNCHANGED <<themeCheckRun, env, engineCalls, allOffenses, errorOffenses,
                 warningOffenses, totalErrorCount, totalWarningCount, summaryLine,
                 reportBody, jobShouldFail, caught, finalCommentBody, fallbackBody,
                 bodyFile, tempFiles, outputFile, outputCalls, writeFailed>>
  /\ UNCHANGED <<fmtVars, concVars>>

RunCheckStartUnvalidated ==
  /\ pc = "runCheck"
  /\ IF themeCheckRun # "function"
     THEN Catch(NotFunctionError, "setup") /\ UNCHANGED engineCalls
     ELSE /\ engineCalls' = engineCalls + 1
          /\ pc' = "await"
          /\ UNCHANGED <<summaryLine, reportBody, jobShouldFail, caught, exitCode>>
  /\ UNCHANGED <<themeCheckRun, env, allOffenses, errorOffenses, warningOffenses,
                 totalErrorCount, totalWarningCount, finalCommentBody, fallbackBody,
                 bodyFile, tempFiles, outputFile, outputCalls, writeFailed>>
  /\ UNCHANGED <<fmtVars, concVars>>

\* lines 130-141: the validations, then the call of the engine
RunCheckStart ==
  /\ pc = "runCheck"
  /\ IF env.GITHUB_OUTPUT # "ok"
     THEN Catch(OutputError, "setup") /\ UNCHANGED engineCalls
     ELSE IF themeCheckRun # "function"
          THEN Catch(NotFunctionError, "setup") /\ UNCHANGED engineCalls
          ELSE /\ engineCalls' = engineCalls + 1
               /\ pc' = "await"
               /\ UNCHANGED <<summaryLine, reportBody, jobShouldFail, caught, exitCode>>
  /\ UNCHANGED <<themeCheckRun, env, allOffenses, errorOffenses, warningOffenses,
                 totalErrorCount, totalWarningCount, finalCommentBody, fallbackBody,
                 bodyFile, tempFiles, outputFile, outputCalls, writeFailed>>
  /\ UNCHANGED <<fmtVars, concVars>>

\* lines 141-195 when the engine's promise resolves
EngineResolves ==
  /\ pc = "await"
  /\ \E results \in Results :
       IF results.truthy /\ results.offensesIsArray
       THEN /\ allOffenses' = results.offenses
            /\ errorOffenses' = ErrorsOf(results.offenses)
            /\ warningOffenses' = WarningsOf(results.offenses)
            /\ totalErrorCount' = Len(errorOffenses')
            /\ totalWarningCount' = Len(warningOffenses')
            /\ summaryLine' = SummaryOf(totalErrorCount', totalWarningCount')
            /\ reportBody' = ReportBody(errorOffenses', warningOffenses', env)
            /\ jobShouldFail' = ShouldFail(totalErrorCount', totalWarningCount', failOnWarnings(env))
            /\ pc' = "publish"
            /\ UNCHANGED <<caught, exitCode>>
       ELSE /\ Catch(ShapeError, "shape")
            /\ UNCHANGED <<allOffenses, errorOffenses, warningOffenses,
                           totalErrorCount, totalWarningCount>>
  /\ UNCHANGED <<themeCheckRun, env, engineCalls, finalCommentBody, fallbackBody,
                 bodyFile, tempFiles, outputFile, outputCalls, writeFailed>>
  /\ UNCHANGED <<fmtVars, concVars>>

\* line 141 when the engine's promise rejects, then lines 197-203
EngineRejects ==
  /\ pc = "await"
  /\ \E error \in Thrown : Catch(error, "engine")
  /\ UNCHANGED <<themeCheckRun, env, engineCalls, allOffenses, errorOffenses,
                 warningOffenses, totalErrorCount, totalWarningCount,
                 finalCommentBody, fallbackBody, bodyFile, tempFiles, outputFile,
                 outputCalls, writeFailed>>
  /\ UNCHANGED <<fmtVars, concVars>>

\* Where control goes after fs.writeFileSync of line 66
AfterWriteIgnoringFailure(written) == "cbf"

AfterWrite(written) == IF written THEN "cbf" ELSE "cbfEmpty"

\* lines 205-211, 64-67 and, when writeFileSync throws, 215-217
WriteCommentBody ==
  /\ pc = "publish"
  /\ finalCommentBody' = FinalCommentBody(env, summaryLine, reportBody)
  /\ \E now \in 1..MaxClock, written \in BOOLEAN :
       /\ bodyFile' = BodyFilePath(now)
       /\ IF written
          THEN /\ tempFiles' = {f \in tempFiles : f.name # bodyFile'}
                                 \cup {[name |-> bodyFile', body |-> finalCommentBody']}
               /\ UNCHANGED <<writeFailed, fallbackBody>>
          ELSE /\ writeFailed' = TRUE
               /\ fallbackBody' = FallbackBody(env, summaryLine)
               /\ UNCHANGED tempFiles
       /\ pc' = AfterWrite(written)
  /\ UNCHANGED <<themeCheckRun, env, engineCalls, allOffenses, errorOffenses,
                 warningOffenses, totalErrorCount, totalWarningCount, summaryLine,
                 reportBody, jobShouldFail, caught, outputFile, outputCalls, exitCode>>
  /\ UNCHANGED <<fmtVars, concVars>>

runRest == <<themeCheckRun, env, engineCalls, allOffenses, errorOffenses,
             warningOffenses, totalErrorCount, totalWarningCount, summaryLine,
             reportBody, caught, finalCommentBody, fallbackBody, bodyFile,
             tempFiles, writeFailed, exitCode>>

\* line 68
SetCommentBodyFile ==
  /\ setOutput("cbf", "comment_body_file", bodyFile)
  /\ UNCHANGED <<runRest, jobShouldFail, fmtVars, concVars>>

\* line 69
SetFallbackEmpty ==
  /\ setOutput("fcb", "fallback_comment_body", <<>>)
  /\ UNCHANGED <<runRest, jobShouldFail, fmtVars, concVars>>

\* line 213
SetErrorCount ==
  /\ setOutput("ec", "error_count", <<Num(totalErrorCount)>>)
  /\ UNCHANGED <<runRest, jobShouldFail, fmtVars, concVars>>

\* line 214
SetWarningCount ==
  /\ setOutput("wc", "warning_count", <<Num(totalWarningCount)>>)
  /\ UNCHANGED <<runRest, jobShouldFail, fmtVars, concVars>>

\* line 218
SetCommentBodyFileEmpty ==
  /\ setOutput("cbfEmpty", "comment_body_file", <<>>)
  /\ UNCHANGED <<runRest, jobShouldFail, fmtVars, concVars>>

SetFallbackBodyNoFail ==
  /\ setOutput("fcbFallback", "fallback_comment_body", fallbackBody)
  /\ UNCHANGED <<runRest, jobShouldFail, fmtVars, concVars>>

\* lines 219-220
SetFallbackBody ==
  /\ setOutput("fcbFallback", "fallback_comment_body", fallbackBody)
  /\ jobShouldFail' = TRUE
  /\ UNCHANGED <<runRest, fmtVars, concVars>>

\* lines 224-225
Exit ==
  /\ pc = "exit"
  /\ exitCode' = IF jobShouldFail THEN 1 ELSE 0
  /\ pc' = "exited"
  /\ UNCHANGED <<themeCheckRun, env, engineCalls, allOffenses, errorOffenses,
                 warningOffenses, totalErrorCount, totalWarningCount, summaryLine,
                 reportBody, jobShouldFail, caught, finalCommentBody, fallbackBody,
                 bodyFile, tempFiles, outputFile, outputCalls, writeFailed>>
  /\ UNCHANGED <<fmtVars, concVars>>

Next ==
  \/ ModuleImport
  \/ RunCheckStart
  \/ EngineResolves
  \/ EngineRejects
  \/ WriteCommentBody
  \/ SetCommentBodyFile
  \/ SetFallbackEmpty
  \/ SetErrorCount
  \/ SetWarningCount
  \/ SetCommentBodyFileEmpty
  \/ SetFallbackBody
  \/ Exit

Spec == Init /\ [][Next]_vars

-----------------------------------------------------------------------------
(* formatOffenseBlock on enumerated arguments *)

runIdle ==
  /\ themeCheckRun = "function"
  /\ env = <<>>
  /\ pc = "idle"
  /\ engineCalls = 0
  /\ allOffenses = <<>>
  /\ errorOffenses = <<>>
  /\ warningOffenses = <<>>
  /\ totalErrorCount = 0
  /\ totalWarningCount = 0
  /\ summaryLine = <<>>
  /\ reportBody = <<>>
  /\ jobShouldFail = FALSE
  /\ caught = "none"
  /\ finalCommentBody = <<>>
  /\ fallbackBody = <<>>
  /\ bodyFile = <<>>
  /\ tempFiles = {}
  /\ outputFile = <<>>
  /\ outputCalls = <<>>
  /\ writeFailed = FALSE
  /\ exitCode = -1

\* uris: absent (or empty), inside the workspace /w, inside with an escaped
\* character, with a truncated escape, outside the workspace, with another
\* scheme, the sentinel as relative path, the workspace root itself, a
\* doubled separator after the root, a sibling directory sharing the
\* root's name as prefix
FormatUris ==
  {EmptyStr,
   FileScheme \o <<"/", "w", "/", "a">>,
   FileScheme \o <<"/", "w", "/", "%", "6", "1">>,
   FileScheme \o <<"/", "w", "/", "a", "%">>,
   FileScheme \o <<"/", "x", "/", "a">>,
   <<"h", "t", "t", "p", ":", "/", "/", "w", "/", "a">>,
   FileScheme \o <<"/", "w", "/">> \o UnknownPath,
   FileScheme \o <<"/", "w">>,
   FileScheme \o <<"/", "w", "/", "/", "a">>,
   FileScheme \o <<"/", "w", "x", "/", "a">>}

FormatStarts ==
  {[present |-> FALSE, line |-> 0, character |-> 0],
   [present |-> TRUE, line |-> 0, character |-> 3],
   [present |-> TRUE, line |-> 12, character |-> 4]}

FormatOffenses ==
  [uri : FormatUris, start : FormatStarts, severity : {0},
   message : {"", "m1"}, check : {"LiquidHTMLSyntaxError"}]

FormatArgs ==
  [offense : FormatOffenses,
   workspacePath : {<<"/", "w">>, <<"/", "w", "/">>, <<"/">>},
   repoUrl : {EmptyStr, RepoUrlSample},
   commitSha : {EmptyStr, CommitShaSample}]

FormatInit ==
  /\ fpc = "call"
  /\ fArgs \in FormatArgs
  /\ fResult = <<>>
  /\ runIdle
  /\ concIdle

\* lines 80-115
FormatOffense ==
  /\ fpc = "call"
  /\ fResult' = formatOffenseBlock(fArgs.offense, fArgs.workspacePath, fArgs.repoUrl, fArgs.commitSha)
  /\ fpc' = "returned"
  /\ UNCHANGED <<fArgs, runVars, concVars>>

FormatNext == FormatOffense

FormatSpec == FormatInit /\ [][FormatNext]_vars

-----------------------------------------------------------------------------
(* Two runs of the script whose temporary directory is the same *)

Runs == {1, 2}

ConcInit ==
  /\ clock = 1
  /\ rpc = [r \in Runs |-> "start"]
  /\ rBodyFile = [r \in Runs |-> <<>>]
  /\ rOutput = [r \in Runs |-> <<>>]
  /\ dirFiles = {}
  /\ runIdle
  /\ fmtIdle

\* The millisecond clock behind Date.now() advances
Tick ==
  /\ clock < MaxClock
  /\ clock' = clock + 1
  /\ UNCHANGED <<rpc, rBodyFile, rOutput, dirFiles, runVars, fmtVars>>

\* lines 64-65: the name is computed from the clock
ComputeBodyFile(r) ==
  /\ rpc[r] = "start"
  /\ rBodyFile' = [rBodyFile EXCEPT ![r] = BodyFilePath(clock)]
  /\ rpc' = [rpc EXCEPT ![r] = "named"]
  /\ UNCHANGED <<clock, rOutput, dirFiles, runVars, fmtVars>>

\* line 66: fs.writeFileSync creates the file or replaces its content
WriteBodyFile(r) ==
  /\ rpc[r] = "named"
  /\ \E written \in BOOLEAN :
       IF written
       THEN /\ dirFiles' = {f \in dirFiles : f.name # rBodyFile[r]}
                             \cup {[name |-> rBodyFile[r], body |-> r]}
            /\ rpc' = [rpc EXCEPT ![r] = "written"]
       ELSE /\ rpc' = [rpc EXCEPT ![r] = "failed"]
            /\ UNCHANGED dirFiles
  /\ UNCHANGED <<clock, rBodyFile, rOutput, runVars, fmtVars>>

\* line 68: comment_body_file is set to the path
PublishBodyFile(r) ==
  /\ rpc[r] = "written"
  /\ rOutput' = [rOutput EXCEPT ![r] = rBodyFile[r]]
  /\ rpc' = [rpc EXCEPT ![r] = "done"]
  /\ UNCHANGED <<clock, rBodyFile, dirFiles, runVars, fmtVars>>

ConcNext ==
  \/ Tick
  \/ \E r \in Runs : ComputeBodyFile(r)
  \/ \E r \in Runs : WriteBodyFile(r)
  \/ \E r \in Runs : PublishBodyFile(r)

ConcSpec == ConcInit /\ [][ConcNext]_vars

-----------------------------------------------------------------------------
(* Properties of one run (Spec) *)

\* The run is past the try block of lines 130-195
PastTry == pc \in {"publish", "cbf", "fcb", "ec", "wc", "cbfEmpty", "fcbFallback", "exit", "exited"}

\* The run is past the publish step of lines 209-221
Published == pc \in {"exit", "exited"}

IndicesWith(offenses, sev) == {i \in 1..Len(offenses) : offenses[i].severity = sev}

\* The k-th smallest element of a set of indices
KthIndex(S, k) == CHOOSE i \in S : Cardinality({j \in S : j <= i}) = k

\* sub is exactly the elements of offenses with severity sev, in their order
IsSeverityFilter(sub, offenses, sev) ==
  /\ Len(sub) = Cardinality(IndicesWith(offenses, sev))
  /\ \A k \in 1..Len(sub) : sub[k] = offenses[KthIndex(IndicesWith(offenses, sev), k)]

IsItem(p) == p.kind = "item"

Items(body) == SelectSeq(body, IsItem)

IsMarker(p) == p \in {ErrorsHeader, WarningsHeader, Separator}

Markers(body) == SelectSeq(body, IsMarker)

Pos(body, p) == CHOOSE i \in 1..Len(body) : body[i] = p

ItemPos(body, k) == KthIndex({i \in 1..Len(body) : IsItem(body[i])}, k)

Calls(name) == {i \in 1..Len(outputCalls) : outputCalls[i].name = name}

Lines(name) == {i \in 1..Len(outputFile) : outputFile[i].name = name}

\* What the exit status is decided from
FailingCondition ==
  \/ totalErrorCount > 0
  \/ (totalWarningCount > 0 /\ env.FAIL_ON_WARNINGS = "true")
  \/ caught # "none"
  \/ writeFailed

\* C1: a run that reaches the final process.exit of line 225 exits with
\* status 1 exactly when there are errors, or warnings with FAIL_ON_WARNINGS
\* the literal "true", or an error was caught by runCheck, or the report file
\* could not be written; it exits with 0 otherwise.
C1_ExitStatus ==
  pc = "exited" => /\ exitCode \in {0, 1}
                   /\ exitCode = 1 <=> FailingCondition

\* Warnings only, the flag set to a value other than the literal: exit 0
C1_Witness ==
  /\ pc = "exited"
  /\ exitCode = 0
  /\ totalWarningCount > 0
  /\ env.FAIL_ON_WARNINGS = "TRUE"

\* C2: when the write of the report file fails, setOutput is called with
\* comment_body_file empty and fallback_comment_body holding title, summary,
\* the could-not-write notice and the run link when configured, and the run
\* exits with 1; when it succeeds, comment_body_file is the written file's
\* path and fallback_comment_body is empty.  Whatever is appended to the
\* output destination carries these values.
C2_WriteFailureFallback ==
  /\ (Published /\ writeFailed) =>
       /\ Len(outputCalls) = 2
       /\ outputCalls[1].name = "comment_body_file" /\ outputCalls[1].value = <<>>
       /\ outputCalls[2].name = "fallback_comment_body"
       /\ LET v == outputCalls[2].value
          IN  /\ v # <<>>
              /\ SubSeq(v, 1, 2) = reportTitle(env)
              /\ SubSeq(v, 5, 4 + Len(summaryLine)) = summaryLine
              /\ \E i \in 1..Len(v) : v[i] = CouldNotWrite
              /\ (v[Len(v)].kind = "link") <=> (env.REPO_URL # EmptyStr /\ env.RUN_ID # EmptyStr)
              /\ (v[Len(v)].kind = "link") => v[Len(v)].url = actionRunUrl(env)
       /\ tempFiles = {}
       /\ jobShouldFail
       /\ (pc = "exited" => exitCode = 1)
  /\ (Published /\ ~writeFailed) =>
       /\ Len(outputCalls) = 4
       /\ outputCalls[1].name = "comment_body_file"
       /\ outputCalls[1].value # <<>>
       /\ [name |-> outputCalls[1].value, body |-> finalCommentBody] \in tempFiles
       /\ outputCalls[2].name = "fallback_comment_body" /\ outputCalls[2].value = <<>>
  /\ \A i \in 1..Len(outputFile) :
       \E j \in 1..Len(outputCalls) :
          /\ outputCalls[j].appended
          /\ outputFile[i].name = outputCalls[j].name
          /\ outputFile[i].value = Escape(outputCalls[j].value)

\* No offense, nothing caught, the write fails, both appends succeed
C2_Witness ==
  /\ pc = "exited"
  /\ writeFailed
  /\ caught = "none"
  /\ totalErrorCount = 0 /\ totalWarningCount = 0
  /\ exitCode = 1
  /\ Len(outputFile) = 2

HasCall(name, value) ==
  \E i \in 1..Len(outputCalls) : outputCalls[i].name = name /\ outputCalls[i].value = value

\* What the claim C3 promises of a run whose engine raised or returned
\* another shape, once it is over
EngineFailurePublished ==
  /\ exitCode = 1
  /\ HasCall("error_count", <<Num(0)>>)
  /\ HasCall("warning_count", <<Num(0)>>)
  /\ \E i \in Calls("comment_body_file") : outputCalls[i].value # <<>>
  /\ reportBody[1] = ScriptFailedOpen
  /\ \E f \in tempFiles :
        /\ \E i \in 1..Len(f.body) : f.body[i] = ScriptFailedOpen
        /\ \E i \in 1..Len(f.body) : f.body[i] = reportBody[5]

\* C3: an engine invocation that raises, or returns another shape than an
\* object with an offenses array, is caught and published: if the report file
\* can be written the outputs are error_count=0, warning_count=0 and a
\* non-empty comment_body_file, the body is the Script Failed notice with the
\* message text, and the exit status is 1.
C3_EngineFailurePublished ==
  caught \in {"engine", "shape"} =>
     /\ pc # "crashed"
     /\ (pc = "exited" /\ ~writeFailed) => EngineFailurePublished

\* The same for the runs that do not end inside the catch handler
C3_PublishedUnlessHandlerThrows ==
  (caught \in {"engine", "shape"} /\ pc = "exited" /\ ~writeFailed) => EngineFailurePublished

SetupError == env.GITHUB_OUTPUT # "ok" \/ themeCheckRun # "function"

Terminated == pc \in {"exited", "exitedAtImport", "crashed"}

C5_Classifier ==
  (PastTry /\ caught = "none") =>
     /\ IsSeverityFilter(errorOffenses, allOffenses, 0)
     /\ IsSeverityFilter(warningOffenses, allOffenses, 1)
     /\ \A i \in 1..Len(errorOffenses), j \in 1..Len(warningOffenses) :
           errorOffenses[i] # warningOffenses[j]
     /\ totalErrorCount = Len(errorOffenses)
     /\ totalWarningCount = Len(warningOffenses)
     /\ totalErrorCount + totalWarningCount <= Len(allOffenses)
     /\ Len(Items(reportBody)) = totalErrorCount + totalWarningCount
     /\ \A i \in 1..Len(reportBody) :
           IsItem(reportBody[i]) => reportBody[i].check \in {CheckOf(0), CheckOf(1)}

\* An offense of another severity ahead of a warning
C5_Witness ==
  /\ pc = "exited"
  /\ caught = "none"
  /\ Len(allOffenses) = 2
  /\ allOffenses[1].severity = 2
  /\ allOffenses[2].severity = 1
  /\ totalWarningCount = 1
  /\ totalErrorCount = 0

ExpectedItems ==
  [k \in 1..(totalErrorCount + totalWarningCount) |->
     IF k <= totalErrorCount
     THEN formatOffenseBlock(errorOffenses[k], env.WORKSPACE_PATH, env.REPO_URL, env.COMMIT_SHA)
     ELSE formatOffenseBlock(warningOffenses[k - totalErrorCount], env.WORKSPACE_PATH,
                             env.REPO_URL, env.COMMIT_SHA)]

C9_BestEffortOutputs ==
  /\ pc \in {"cbfEmpty", "fcbFallback"} => writeFailed
  /\ Calls("comment_body_file") # {} =>
       \A i \in Calls("comment_body_file") : outputCalls[i].value = <<>> <=> writeFailed
  /\ Published =>
       [i \in 1..Len(outputCalls) |-> outputCalls[i].name] =
          IF writeFailed
          THEN <<"comment_body_file", "fallback_comment_body">>
          ELSE <<"comment_body_file", "fallback_comment_body", "error_count", "warning_count">>
  /\ (pc = "exited" /\ \E i \in 1..Len(outputCalls) : ~outputCalls[i].appended) =>
       (exitCode = 1 <=> FailingCondition)

\* The first append fails, the last one lands, and the run exits with 0
C9_Witness ==
  /\ pc = "exited"
  /\ env.GITHUB_OUTPUT = "ok"
  /\ Len(outputCalls) = 4
  /\ ~outputCalls[1].appended
  /\ outputCalls[4].appended
  /\ exitCode = 0

\* C10: comment_body_file and fallback_comment_body are each appended at most
\* once, never both with a non-empty value, and a non-empty comment_body_file
\* is the path of a report file that has been written.
C10_OneBodyOutput ==
  /\ Cardinality(Lines("comment_body_file")) <= 1
  /\ Cardinality(Lines("fallback_comment_body")) <= 1
  /\ \A i \in Lines("comment_body_file"), j \in Lines("fallback_comment_body") :
        outputFile[i].value = <<>> \/ outputFile[j].value = <<>>
  /\ \A i \in Lines("comment_body_file") :
        outputFile[i].value # <<>> =>
           \E f \in tempFiles : Escape(f.name) = outputFile[i].value /\ f.body = finalCommentBody

\* The path of the written file and the empty fallback are both appended
C10_Witness ==
  /\ Lines("comment_body_file") # {}
  /\ Lines("fallback_comment_body") # {}
  /\ \E i \in Lines("comment_body_file") : outputFile[i].value # <<>>
  /\ tempFiles # {}

-----------------------------------------------------------------------------
(* Properties of formatOffenseBlock (FormatSpec) *)

ArgUri == IF fArgs.offense.uri # EmptyStr THEN fArgs.offense.uri ELSE DefaultUri

ArgDecoded == decodeURIComponent(Substring(ArgUri, 7))

ArgRoot ==
  IF fArgs.workspacePath[Len(fArgs.workspacePath)] = "/" THEN fArgs.workspacePath
  ELSE fArgs.workspacePath \o <<"/">>

\* The uri has the file scheme and decodes to a path under the workspace root
ArgInsideWorkspace ==
  /\ StartsWith(ArgUri, FileScheme)
  /\ ArgDecoded.ok
  /\ StartsWith(ArgDecoded.s, ArgRoot)

\* C6: the path is rendered as a link only if the repository URL and the
\* commit SHA are non-empty, the uri has the file scheme and decodes to a path
\* under the workspace root with a relative path other than the sentinel, and
\* the start line is greater than 0.  An offense without start renders 0:0
\* and no link; an offense outside the workspace, without uri, with another
\* scheme or with a malformed escape gets no link.
C6_LinkOnlyIf ==
  fpc = "returned" =>
     /\ fResult.linked =>
          /\ fArgs.repoUrl # EmptyStr
          /\ fArgs.commitSha # EmptyStr
          /\ fArgs.offense.uri # EmptyStr
          /\ ArgInsideWorkspace
          /\ SubSeq(ArgDecoded.s, Len(ArgRoot) + 1, Len(ArgDecoded.s)) # UnknownPath
          /\ fArgs.offense.start.present
          /\ fArgs.offense.start.line > 0
          /\ fResult.fileLink.line = fArgs.offense.start.line
     /\ ~fArgs.offense.start.present => (fResult.row = 0 /\ fResult.col = 0 /\ ~fResult.linked)
     /\ ~ArgInsideWorkspace => ~fResult.linked

\* A link for an escaped uri inside the workspace
C6_Witness ==
  /\ fpc = "returned"
  /\ fResult.linked
  /\ \E i \in 1..Len(fArgs.offense.uri) : fArgs.offense.uri[i] = "%"
  /\ fResult.pathText = <<"a">>

-----------------------------------------------------------------------------
(* Properties of two overlapping runs (ConcSpec) *)

HasWritten(r) == rpc[r] \in {"written", "done"}

\* C7: two runs sharing the temporary directory write their reports to
\* different file names, so no report file is overwritten by the other run
\* and each run's comment_body_file names a file holding its own report.
C7_NoCollision ==
  /\ \A r1, r2 \in Runs :
        (r1 # r2 /\ HasWritten(r1) /\ HasWritten(r2)) => rBodyFile[r1] # rBodyFile[r2]
  /\ \A r \in Runs :
        rpc[r] = "done" => [name |-> rOutput[r], body |-> r] \in dirFiles

====
